---- MODULE Spec2Model ----
(***************************************************************************)
(* Model of scripts/uart_commander.py: the numeric-literal parser          *)
(* str_to_int, the minimal little-endian encoder used by                   *)
(* loop_send_uart_input, device selection in main / detect_com_port, and   *)
(* the read / parse / encode / write loop with its exit paths.             *)
(*                                                                         *)
(* A Python string is modelled as a sequence of characters.  A character   *)
(* is a one-symbol TLA+ string; two non-ASCII characters are named:        *)
(*   "SUP2"  U+00B2 SUPERSCRIPT TWO      (str.isdigit() true, int() fails) *)
(*   "AR3"   U+0663 ARABIC-INDIC DIGIT 3 (str.isdigit() true, int() = 3)   *)
(***************************************************************************)
EXTENDS Integers, Sequences, FiniteSets, TLC

VARIABLES
    pc,          \* position of main / loop_send_uart_input
    argPort,     \* args.com_port ("" when the flag is absent)
    ports,       \* what serial.tools.list_ports.comports() would return
    enumerated,  \* comports() has been called
    com_port,    \* main's com_port ("" before it is assigned)
    openedPath,  \* path handed to serial.Serial when it succeeded
    portState,   \* "none" | "open" | "closed"
    closeCount,  \* number of ser.close() calls
    lines,       \* raw lines returned by input(), in order
    data_str,    \* loop variable data_str
    data_int,    \* loop variable data_int
    writes,      \* arguments of the completed ser.write calls, in order
    parsed,      \* arguments of the loop's str_to_int calls, in order
    exitBy,      \* how the program was left
    exitAt,      \* position at which the loop was left
    string,      \* argument of a stand-alone str_to_int call
    ret,         \* outcome of that call
    number,      \* integer handed to the stand-alone encoder
    encoded      \* outcome of the stand-alone encoder

vars == <<pc, argPort, ports, enumerated, com_port, openedPath, portState,
          closeCount, lines, data_str, data_int, writes, parsed, exitBy,
          exitAt, string, ret, number, encoded>>

loopVars == <<pc, argPort, ports, enumerated, com_port, openedPath, portState,
              closeCount, lines, data_str, data_int, writes, parsed,
              exitBy, exitAt>>

(***************************************************************************)
(* Bounds                                                                  *)
(***************************************************************************)
MaxTokLen == 4      \* longest token handed to the stand-alone parser
MaxNumber == 66000  \* largest integer handed to the stand-alone encoder
MaxLines == 2       \* most input lines read in one run of the loop

(***************************************************************************)
(* Characters and Python's str predicates                                  *)
(***************************************************************************)
Alphabet ==
    {"0", "1", "9", "a", "A", "b", "x", "X", " ", "_", "-", "+", "SUP2", "AR3"}

Whitespace == {" "}

\* characters with Unicode category Nd (int() converts them to ASCII digits)
DecimalChars == {"0", "1", "9", "AR3"}

\* characters for which str.isdigit() is true: Nd plus digit-typed ones
DigitChars == DecimalChars \cup {"SUP2"}

LowerChar(c) ==
    CASE c = "A" -> "a"
      [] c = "X" -> "x"
      [] OTHER -> c

\* str.lower()
Lower(s) == [i \in 1..Len(s) |-> LowerChar(s[i])]

RECURSIVE LStrip(_)
LStrip(s) ==
    IF s # <<>> /\ Head(s) \in Whitespace THEN LStrip(Tail(s)) ELSE s

RECURSIVE RStrip(_)
RStrip(s) ==
    IF s # <<>> /\ s[Len(s)] \in Whitespace
    THEN RStrip(SubSeq(s, 1, Len(s) - 1))
    ELSE s

\* str.strip()
Strip(s) == RStrip(LStrip(s))

\* str.isdigit(): non-empty and every character is a digit character
IsDigit(s) == s # <<>> /\ \A i \in 1..Len(s) : s[i] \in DigitChars

\* str.startswith(prefix)
StartsWith(s, prefix) ==
    Len(s) >= Len(prefix) /\ SubSeq(s, 1, Len(prefix)) = prefix

(***************************************************************************)
(* int(string, base) for base in {2, 10, 16}                               *)
(***************************************************************************)
\* value of character c as a digit, -1 when c is no digit at all
CharValue(c) ==
    CASE c = "0" -> 0
      [] c = "1" -> 1
      [] c = "9" -> 9
      [] c = "AR3" -> 3
      [] c \in {"a", "A"} -> 10
      [] c \in {"b"} -> 11
      [] OTHER -> -1

IsBaseDigit(c, base) == CharValue(c) >= 0 /\ CharValue(c) < base

RECURSIVE DigitsValue(_, _, _)
DigitsValue(s, base, acc) ==
    IF s = <<>> THEN acc
    ELSE IF Head(s) = "_" THEN DigitsValue(Tail(s), base, acc)
    ELSE DigitsValue(Tail(s), base, acc * base + CharValue(Head(s)))

\* digits of the base, single underscores allowed between two digits
WellGrouped(s, base) ==
    /\ s # <<>>
    /\ IsBaseDigit(s[1], base)
    /\ IsBaseDigit(s[Len(s)], base)
    /\ \A i \in 1..Len(s) : s[i] = "_" \/ IsBaseDigit(s[i], base)
    /\ \A i \in 1..(Len(s) - 1) : ~(s[i] = "_" /\ s[i + 1] = "_")

ValueError == [ok |-> FALSE, val |-> 0]

PyInt(s, base) ==
    LET t == Strip(s)
        signed == t # <<>> /\ Head(t) \in {"+", "-"}
        sign == IF signed /\ Head(t) = "-" THEN -1 ELSE 1
        u == IF signed THEN Tail(t) ELSE t
        mark == IF base = 16 THEN {"x", "X"} ELSE IF base = 2 THEN {"b"} ELSE {}
        prefixed == Len(u) >= 2 /\ u[1] = "0" /\ u[2] \in mark
        v == IF prefixed THEN SubSeq(u, 3, Len(u)) ELSE u
        \* one underscore is allowed right after the base prefix
        w == IF prefixed /\ v # <<>> /\ Head(v) = "_" THEN Tail(v) ELSE v
    IN  IF WellGrouped(w, base)
        THEN [ok |-> TRUE, val |-> sign * DigitsValue(w, base, 0)]
        ELSE ValueError

(***************************************************************************)
(* str_to_int.  via records which statement produced the outcome:          *)
(*   "int"      a return of int(...)           (lines 23, 31, 38)          *)
(*   "sentinel" a return -1                    (lines 27, 34, 41, 44)      *)
(*   "raise"    ValueError left the function   (line 23, not caught)       *)
(***************************************************************************)
Returned(v) == [via |-> "int", val |-> v]
Failed == [via |-> "sentinel", val |-> -1]
Raised == [via |-> "raise", val |-> 0]

\* str_to_int without the .lower() of line 21
str_to_int_nolower(str) ==
    LET s == Strip(str) IN
    IF IsDigit(s)
    THEN IF PyInt(s, 10).ok THEN Returned(PyInt(s, 10).val) ELSE Raised
    ELSE IF Len(s) < 3 THEN Failed
    ELSE IF StartsWith(s, <<"0", "x">>)
    THEN IF PyInt(s, 16).ok THEN Returned(PyInt(s, 16).val) ELSE Failed
    ELSE IF StartsWith(s, <<"0", "b">>)
    THEN IF PyInt(s, 2).ok THEN Returned(PyInt(s, 2).val) ELSE Failed
    ELSE Failed

\* str_to_int whose decimal branch is "whatever int() accepts" instead of
\* the isdigit() test of line 22
str_to_int_lenient(str) ==
    LET s == Lower(Strip(str)) IN
    IF PyInt(s, 10).ok THEN Returned(PyInt(s, 10).val)
    ELSE IF IsDigit(s) THEN Raised
    ELSE IF Len(s) < 3 THEN Failed
    ELSE IF StartsWith(s, <<"0", "x">>)
    THEN IF PyInt(s, 16).ok THEN Returned(PyInt(s, 16).val) ELSE Failed
    ELSE IF StartsWith(s, <<"0", "b">>)
    THEN IF PyInt(s, 2).ok THEN Returned(PyInt(s, 2).val) ELSE Failed
    ELSE Failed

str_to_int(str) ==
    LET s == Lower(Strip(str)) IN
    IF IsDigit(s)
    THEN IF PyInt(s, 10).ok THEN Returned(PyInt(s, 10).val) ELSE Raised
    ELSE IF Len(s) < 3 THEN Failed
    ELSE IF StartsWith(s, <<"0", "x">>)
    THEN IF PyInt(s, 16).ok THEN Returned(PyInt(s, 16).val) ELSE Failed
    ELSE IF StartsWith(s, <<"0", "b">>)
    THEN IF PyInt(s, 2).ok THEN Returned(PyInt(s, 2).val) ELSE Failed
    ELSE Failed

(***************************************************************************)
(* The encoder of loop_send_uart_input (lines 92-93)                       *)
(***************************************************************************)
Abs(n) == IF n < 0 THEN -n ELSE n

RECURSIVE BitLength(_)
\* int.bit_length()
BitLength(n) == IF n = 0 THEN 0 ELSE 1 + BitLength(Abs(n) \div 2)

RECURSIVE Pow256(_)
Pow256(k) == IF k = 0 THEN 1 ELSE 256 * Pow256(k - 1)

OverflowError == [ok |-> FALSE, bytes |-> <<>>]

\* to_bytes with byteorder="big"
ToBytes_big(n, length) ==
    IF n < 0 \/ n >= Pow256(length)
    THEN OverflowError
    ELSE [ok |-> TRUE,
          bytes |-> [i \in 1..length |-> (n \div Pow256(length - i)) % 256]]

\* int.to_bytes(length, byteorder="little")
ToBytes(n, length) ==
    IF n < 0 \/ n >= Pow256(length)
    THEN OverflowError
    ELSE [ok |-> TRUE,
          bytes |-> [i \in 1..length |-> (n \div Pow256(i - 1)) % 256]]

\* byte count as bit_length // 8 + 1
ByteLen_plus1(n) == BitLength(n) \div 8 + 1

\* data_byte_len = (data_int.bit_length() + 7) // 8
ByteLen(n) == (BitLength(n) + 7) \div 8

\* data_int.to_bytes(data_byte_len or 1, byteorder="little")
Encode(n) ==
    LET data_byte_len == ByteLen(n)
    IN  ToBytes(n, IF data_byte_len = 0 THEN 1 ELSE data_byte_len)

(***************************************************************************)
(* Device selection: detect_com_port and main                              *)
(***************************************************************************)
None == "None"

\* Python truthiness of main's com_port
Truthy(p) == p \notin {None, ""}

\* selecting the last enumerated port
detect_com_port_last(comports) ==
    IF comports = <<>> THEN None ELSE comports[Len(comports)]

detect_com_port(comports) ==
    IF comports = <<>> THEN None ELSE comports[1]

(***************************************************************************)
(* Input lines typed at the prompt                                         *)
(***************************************************************************)
InputLines ==
    { <<"x">>, <<"X">>, <<" ", "X", " ">>, <<"x", "x">>,
      <<>>, <<"0">>, <<" ", "1", "9", " ">>,
      <<"0", "x", "1", "0", "0">>, <<"0", "X", "a", "A">>,
      <<"0", "b", "1", "1">>, <<"0", "b", "9">>, <<"0", "x">>,
      <<"-", "1">>, <<"+", "1", "1">>,
      <<"0", "x", "1", "_", "a">>, <<"0", "x", " ", "1">>,
      <<"SUP2">>, <<"AR3">> }

\* the prompt's token without .lower()
InputToken_raw(line) == Strip(line)

\* input(...).strip().lower()
InputToken(line) == Lower(Strip(line))

LoopPcs == {"prompt", "parse", "write"}

NotCalled == [via |-> "none", val |-> 0]
NotEncoded == [state |-> "none", bytes |-> <<>>]

idleHarness ==
    /\ string = <<>>
    /\ ret = NotCalled
    /\ number = 0
    /\ encoded = NotEncoded

Init ==
    /\ pc = "main"
    /\ argPort \in {"", "COM5"}
    /\ ports \in {<<>>, <<"COM1">>, <<"COM2", "COM1">>}
    /\ enumerated = FALSE
    /\ com_port = ""
    /\ openedPath = ""
    /\ portState = "none"
    /\ closeCount = 0
    /\ lines = <<>>
    /\ data_str = <<>>
    /\ data_int = 0
    /\ writes = <<>>
    /\ parsed = <<>>
    /\ exitBy = "none"
    /\ exitAt = "none"
    /\ idleHarness

\* main, lines 113-115: pick the port, enter the loop only for a truthy one
Main ==
    /\ pc = "main"
    /\ enumerated' = (argPort = "")
    /\ com_port' = IF argPort # "" THEN argPort ELSE detect_com_port(ports)
    /\ pc' = IF Truthy(com_port') THEN "open" ELSE "done"
    /\ exitBy' = IF Truthy(com_port') THEN exitBy ELSE "no_device"
    /\ UNCHANGED <<argPort, ports, openedPath, portState, closeCount, lines,
                   data_str, data_int, writes, parsed, exitAt,
                   string, ret, number, encoded>>

\* line 77: serial.Serial(com_port, baudrate) succeeds
SerialOpen ==
    /\ pc = "open"
    /\ portState' = "open"
    /\ openedPath' = com_port
    /\ pc' = "prompt"
    /\ UNCHANGED <<argPort, ports, enumerated, com_port, closeCount, lines,
                   data_str, data_int, writes, parsed, exitBy, exitAt,
                   string, ret, number, encoded>>

\* lines 78-80: serial.SerialException, logged, return
SerialOpenFails ==
    /\ pc = "open"
    /\ pc' = "done"
    /\ exitBy' = "open_failed"
    /\ UNCHANGED <<argPort, ports, enumerated, com_port, openedPath,
                   portState, closeCount, lines, data_str, data_int, writes,
                   parsed, exitAt, string, ret, number, encoded>>

\* the port closed after the loop and in the KeyboardInterrupt handler
\* instead of in a finally clause
LeaveLoop_nofinally(how) ==
    /\ portState' = IF how \in {"exit_token", "interrupt"}
                    THEN "closed" ELSE portState
    /\ closeCount' = IF how \in {"exit_token", "interrupt"}
                     THEN closeCount + 1 ELSE closeCount
    /\ exitBy' = how
    /\ exitAt' = pc
    /\ pc' = IF how \in {"exit_token", "interrupt"} THEN "done" ELSE "crashed"

\* lines 86, 95-99: leaving the try block; finally closes the port.  break
\* and KeyboardInterrupt return normally, any other exception propagates.
LeaveLoop(how) ==
    /\ portState' = "closed"
    /\ closeCount' = closeCount + 1
    /\ exitBy' = how
    /\ exitAt' = pc
    /\ pc' = IF how \in {"exit_token", "interrupt"} THEN "done" ELSE "crashed"

\* lines 84-86: input() returns a line
ReadLine(line) ==
    /\ pc = "prompt"
    /\ Len(lines) < MaxLines
    /\ lines' = Append(lines, line)
    /\ data_str' = InputToken(line)
    /\ IF data_str' = <<"x">>
       THEN LeaveLoop("exit_token")
       ELSE /\ pc' = "parse"
            /\ UNCHANGED <<portState, closeCount, exitBy, exitAt>>
    /\ UNCHANGED <<argPort, ports, enumerated, com_port, openedPath,
                   data_int, writes, parsed, string, ret, number, encoded>>

\* line 84: input() raises EOFError (standard input exhausted)
InputEOF ==
    /\ pc = "prompt"
    /\ LeaveLoop("EOFError")
    /\ UNCHANGED <<argPort, ports, enumerated, com_port, openedPath, lines,
                   data_str, data_int, writes, parsed,
                   string, ret, number, encoded>>

\* lines 95-96: KeyboardInterrupt anywhere inside the try block
Interrupt ==
    /\ pc \in LoopPcs
    /\ LeaveLoop("interrupt")
    /\ UNCHANGED <<argPort, ports, enumerated, com_port, openedPath, lines,
                   data_str, data_int, writes, parsed,
                   string, ret, number, encoded>>

\* the failure test written as "if not data_int" / data_int <= 0
Parse_falsy ==
    /\ pc = "parse"
    /\ parsed' = Append(parsed, data_str)
    /\ LET r == str_to_int(data_str) IN
       IF r.via = "raise"
       THEN /\ LeaveLoop("ValueError")
            /\ UNCHANGED data_int
       ELSE /\ data_int' = r.val
            /\ pc' = IF r.val <= 0 THEN "prompt" ELSE "write"
            /\ UNCHANGED <<portState, closeCount, exitBy, exitAt>>
    /\ UNCHANGED <<argPort, ports, enumerated, com_port, openedPath, lines,
                   data_str, writes, string, ret, number, encoded>>

\* lines 88-90: data_int = str_to_int(data_str); skip the line on -1
Parse ==
    /\ pc = "parse"
    /\ parsed' = Append(parsed, data_str)
    /\ LET r == str_to_int(data_str) IN
       IF r.via = "raise"
       THEN /\ LeaveLoop("ValueError")
            /\ UNCHANGED data_int
       ELSE /\ data_int' = r.val
            /\ pc' = IF r.val = -1 THEN "prompt" ELSE "write"
            /\ UNCHANGED <<portState, closeCount, exitBy, exitAt>>
    /\ UNCHANGED <<argPort, ports, enumerated, com_port, openedPath, lines,
                   data_str, writes, string, ret, number, encoded>>

\* lines 92-94: encode data_int and write the bytes
Write ==
    /\ pc = "write"
    /\ LET data_bytes == Encode(data_int) IN
       IF data_bytes.ok
       THEN /\ writes' = Append(writes, data_bytes.bytes)
            /\ pc' = "prompt"
            /\ UNCHANGED <<portState, closeCount, exitBy, exitAt>>
       ELSE /\ LeaveLoop("OverflowError")
            /\ UNCHANGED writes
    /\ UNCHANGED <<argPort, ports, enumerated, com_port, openedPath, lines,
                   data_str, data_int, parsed, string, ret, number, encoded>>

\* line 94: ser.write raises serial.SerialException
WriteFails ==
    /\ pc = "write"
    /\ LeaveLoop("SerialException")
    /\ UNCHANGED <<argPort, ports, enumerated, com_port, openedPath, lines,
                   data_str, data_int, writes, parsed,
                   string, ret, number, encoded>>

Next ==
    \/ Main
    \/ SerialOpen
    \/ SerialOpenFails
    \/ \E line \in InputLines : ReadLine(line)
    \/ InputEOF
    \/ Interrupt
    \/ Parse
    \/ Write
    \/ WriteFails

Spec == Init /\ [][Next]_vars

(***************************************************************************)
(* Stand-alone calls of the parser and of the encoder                      *)
(***************************************************************************)
Tokens == UNION {[1..k -> Alphabet] : k \in 0..MaxTokLen}

idleLoop ==
    /\ pc = "idle"
    /\ argPort = ""
    /\ ports = <<>>
    /\ enumerated = FALSE
    /\ com_port = ""
    /\ openedPath = ""
    /\ portState = "none"
    /\ closeCount = 0
    /\ lines = <<>>
    /\ data_str = <<>>
    /\ data_int = 0
    /\ writes = <<>>
    /\ parsed = <<>>
    /\ exitBy = "none"
    /\ exitAt = "none"

InitParse ==
    /\ idleLoop
    /\ string \in Tokens
    /\ ret = NotCalled
    /\ number = 0
    /\ encoded = NotEncoded

CallStrToInt ==
    /\ pc = "idle"
    /\ ret = NotCalled
    /\ ret' = str_to_int(string)
    /\ UNCHANGED <<loopVars, string, number, encoded>>

NextParse == CallStrToInt

SpecParse == InitParse /\ [][NextParse]_vars

InitEncode ==
    /\ idleLoop
    /\ string = <<>>
    /\ ret = NotCalled
    /\ number \in 0..MaxNumber
    /\ encoded = NotEncoded

CallEncode ==
    /\ pc = "idle"
    /\ encoded = NotEncoded
    /\ encoded' = [state |-> IF Encode(number).ok THEN "bytes" ELSE "OverflowError",
                   bytes |-> Encode(number).bytes]
    /\ UNCHANGED <<loopVars, string, ret, number>>

NextEncode == CallEncode

SpecEncode == InitEncode /\ [][NextEncode]_vars

\* the parser called alone and the program run from main, side by side
InitParseLoop == Init \/ InitParse

NextParseLoop == Next \/ NextParse

SpecParseLoop == InitParseLoop /\ [][NextParseLoop]_vars

(***************************************************************************)
(* Reference notions used by the properties                                *)
(***************************************************************************)
AsciiDecimal == {"0", "1", "9"}
HexDigits == {"0", "1", "9", "a", "b"}
BinDigits == {"0", "1"}

RefDigit(c) ==
    CASE c = "0" -> 0
      [] c = "1" -> 1
      [] c = "9" -> 9
      [] c = "a" -> 10
      [] c = "b" -> 11

RECURSIVE RefValue(_, _)
RefValue(s, base) ==
    IF s = <<>> THEN 0
    ELSE base * RefValue(SubSeq(s, 1, Len(s) - 1), base) + RefDigit(s[Len(s)])

AllIn(s, chars) == \A i \in 1..Len(s) : s[i] \in chars

Rest(s) == SubSeq(s, 3, Len(s))

IsDecimalForm(s) == s # <<>> /\ AllIn(s, AsciiDecimal)

IsHexForm(s) ==
    Len(s) >= 3 /\ s[1] = "0" /\ s[2] = "x" /\ AllIn(Rest(s), HexDigits)

IsBinForm(s) ==
    Len(s) >= 3 /\ s[1] = "0" /\ s[2] = "b" /\ AllIn(Rest(s), BinDigits)

RECURSIVE Decode(_)
\* little-endian unsigned value of a byte sequence
Decode(bytes) ==
    IF bytes = <<>> THEN 0 ELSE Head(bytes) + 256 * Decode(Tail(bytes))

RECURSIVE ExpectedWrites(_)
\* the encodings of the lines the parser accepts, in input order
ExpectedWrites(ls) ==
    IF ls = <<>> THEN <<>>
    ELSE LET r == str_to_int(Lower(Strip(Head(ls)))) IN
         IF r.via = "int"
         THEN <<Encode(r.val).bytes>> \o ExpectedWrites(Tail(ls))
         ELSE ExpectedWrites(Tail(ls))

\* the lines whose loop iteration ran to its end
Completed ==
    IF pc \in {"parse", "write"} \/ exitAt \in {"parse", "write"}
    THEN SubSeq(lines, 1, Len(lines) - 1)
    ELSE lines

(***************************************************************************)
(* Properties                                                              *)
(***************************************************************************)

\* C1: the bytes built for a non-negative integer n decode back to n when
\* read as a little-endian unsigned number, and every byte is in 0..255.
C1_RoundTrip ==
    encoded # NotEncoded =>
        /\ encoded.state = "bytes"
        /\ Decode(encoded.bytes) = number
        /\ \A i \in 1..Len(encoded.bytes) : encoded.bytes[i] \in 0..255

C1_Witness ==
    /\ encoded.state = "bytes"
    /\ number = 65536
    /\ encoded.bytes = <<0, 0, 1>>

\* C2: the encoding is minimal with a floor of one byte: length >= 1, 0 is
\* the single byte 0, and for n > 0 the most-significant byte is non-zero,
\* so the length is the least k >= 1 with n < 256^k.
C2_Minimal ==
    encoded # NotEncoded =>
        LET k == Len(encoded.bytes) IN
        /\ encoded.state = "bytes"
        /\ k >= 1
        /\ number = 0 => encoded.bytes = <<0>>
        /\ number > 0 => encoded.bytes[k] # 0
        /\ number < Pow256(k)
        /\ k > 1 => number >= Pow256(k - 1)
        /\ number = 255 => k = 1
        /\ number = 256 => k = 2

C2_Witness ==
    /\ encoded.state = "bytes"
    /\ number = 256
    /\ encoded.bytes = <<0, 1>>

\* C3: for every well-formed token (decimal digits, 0x + hex digits,
\* 0b + binary digits, after trimming and lowercasing) str_to_int returns
\* the base-10 / base-16 / base-2 value, and parsing a token equals parsing
\* its trimmed, lowercased form.
C3_WellFormedValue ==
    ret # NotCalled =>
        LET s == Lower(Strip(string)) IN
        /\ IsDecimalForm(s) => ret = Returned(RefValue(s, 10))
        /\ IsHexForm(s) => ret = Returned(RefValue(Rest(s), 16))
        /\ IsBinForm(s) => ret = Returned(RefValue(Rest(s), 2))
        /\ ret = str_to_int(s)

C3_Witness ==
    /\ string = <<"0", "X", "1", "A">>
    /\ ret = Returned(26)

\* C4: str_to_int returns the sentinel -1 for every token outside the three
\* accepted forms, including remainders with "_", a sign or whitespace.
\* Stated for the tokens made of ASCII characters.
C4_RejectsMalformed ==
    (ret # NotCalled /\ AllIn(string, Alphabet \ {"SUP2", "AR3"})) =>
        LET s == Lower(Strip(string)) IN
        (~IsDecimalForm(s) /\ ~IsHexForm(s) /\ ~IsBinForm(s)) => ret = Failed

\* C5: the sentinel never collides with a parsed value: a value returned by
\* a successful parse is non-negative, -1 is returned by the failure paths
\* only, the tokens 0, 0x0 and 0b0 are accepted with value 0, and the
\* integer handed to the encoder in the loop is never negative.
C5_SentinelDistinct ==
    /\ ret.via = "int" => ret.val >= 0
    /\ ret.val = -1 => ret.via = "sentinel"
    /\ (ret # NotCalled /\ Lower(Strip(string)) \in
            {<<"0">>, <<"0", "x", "0">>, <<"0", "b", "0">>})
          => ret = Returned(0)
    /\ pc = "write" => data_int >= 0
    /\ \A i \in 1..Len(writes) : Len(writes[i]) >= 1

C5_Witness ==
    /\ string = <<"0", "X", "0">>
    /\ ret = Returned(0)

\* C6: no input line makes loop_send_uart_input terminate through an
\* uncaught exception: an iteration ends by the exit token, by skipping the
\* line, or by exactly one write.
C6_NoCrashOnInput ==
    pc = "crashed" => exitBy \in {"EOFError", "SerialException"}

\* C7: once the port was opened it is closed exactly once before the
\* function is left, on every exit path, and nothing is written after the
\* close.
C7_Released ==
    /\ closeCount <= 1
    /\ pc \in LoopPcs => (portState = "open" /\ closeCount = 0)
    /\ (pc \in {"done", "crashed"} /\ openedPath # "")
          => (portState = "closed" /\ closeCount = 1)
    /\ portState = "closed" => pc \in {"done", "crashed"}

C7_NoUseAfterClose ==
    portState = "closed" => (writes' = writes /\ portState' = "closed")

C7_PortReleased == [](C7_Released) /\ [][C7_NoUseAfterClose]_vars

C7_Witness ==
    /\ pc = "crashed"
    /\ exitBy = "SerialException"
    /\ portState = "closed"
    /\ closeCount = 1

\* C8: a line that equals x after trimming and lowercasing ends the loop at
\* that iteration: str_to_int is not called for it, nothing is written for
\* it, and no further line is read.
C8_ExitLineIsLast ==
    /\ \A i \in 1..Len(parsed) : parsed[i] # <<"x">>
    /\ \A i \in 1..Len(lines) :
          Lower(Strip(lines[i])) = <<"x">> =>
              /\ i = Len(lines)
              /\ pc = "done"
              /\ exitBy = "exit_token"
              /\ Len(parsed) < Len(lines)
              /\ Len(writes) < Len(lines)

C8_ExitStep ==
    (/\ pc = "prompt"
     /\ Len(lines') = Len(lines) + 1
     /\ Lower(Strip(lines'[Len(lines')])) = <<"x">>)
        => (/\ pc' = "done"
            /\ exitBy' = "exit_token"
            /\ parsed' = parsed
            /\ writes' = writes)

C8_ExitToken == [](C8_ExitLineIsLast) /\ [][C8_ExitStep]_vars

C8_Witness ==
    /\ pc = "done"
    /\ exitBy = "exit_token"
    /\ lines = <<<<"0", "x", "1", "0", "0">>, <<" ", "X", " ">>>>
    /\ writes = <<<<0, 1>>>>
    /\ Len(parsed) = 1

\* C9 as stated: once the loop has ended, the writes are exactly the
\* encodings of the lines read that parse successfully, in input order.
C9_WritesMatchLinesRead ==
    (pc \in {"done", "crashed"} /\ portState = "closed")
        => writes = ExpectedWrites(lines)

\* C9 amended: the completed writes are exactly the encodings, in input
\* order, of the accepted lines whose iteration ran to its end; a line
\* whose iteration was cut short has no write.
C9_WritesMatchCompleted == writes = ExpectedWrites(Completed)

C9_Witness ==
    /\ pc = "prompt"
    /\ lines = <<<<"0", "x">>, <<"0", "x", "1", "0", "0">>>>
    /\ writes = <<<<0, 1>>>>

\* C10: with no device (no path given and nothing enumerated, or the open
\* fails) the program returns without reading, writing or closing; a given
\* path is opened without enumeration, otherwise the first enumerated one.
C10_NoDeviceNoLoop ==
    /\ (pc # "main" /\ argPort = "" /\ ports = <<>>)
          => (pc = "done" /\ exitBy = "no_device" /\ portState = "none")
    /\ exitBy = "open_failed" => (pc = "done" /\ portState = "none")
    /\ portState = "none"
          => (lines = <<>> /\ writes = <<>> /\ closeCount = 0
              /\ pc \notin LoopPcs)
    /\ argPort # "" => ~enumerated
    /\ (argPort # "" /\ pc # "main") => com_port = argPort
    /\ (argPort = "" /\ pc # "main") => enumerated
    /\ (argPort = "" /\ portState # "none") => openedPath = ports[1]
    /\ portState # "none" => openedPath = com_port

C10_Witness ==
    /\ pc = "done"
    /\ exitBy = "open_failed"
    /\ argPort = ""
    /\ com_port = "COM2"
    /\ lines = <<>>

====
